---- MODULE Spec2Model ----
\* Token lifecycle of the account service (login, validate, revoke) together
\* with the identity store and the bearer-token gate of the resource service.
EXTENDS Integers, Sequences, FiniteSets, TLC

\* ---------------------------------------------------------------- bounds
MaxClock == 2000
TickSeconds == 2000
\* identities registered plus tokens handed out
MaxWrites == 2

\* ------------------------------------------------------- program constants
LOGIN_TTL_MINUTES == 30
ACCESS_TOKEN_EXPIRE_MINUTES == 30
SECRET_KEY == "your-secret-key-here"
ALGORITHM == "HS256"

Usernames == {"alice", "bob"}
Passwords == {"pw1", "pw2"}
RegisterPasswords == {"pw2"}
Emails == {"a@x", "b@x"}
Salts == {"s1"}
ScopeRequests == {<<>>, <<"me", "admin">>}
GateScopes == {<<"me">>, <<"admin">>, <<"campaigns:read">>}

\* a nullable column: <<>> is NULL, <<v>> holds v
NULL == <<>>

\* timedelta(minutes=m) in seconds
timedelta(m) == m * 60

SeqToSet(s) == {s[i] : i \in 1..Len(s)}

\* --------------------------------------------------------- pure functions
\* passlib bcrypt: a salted digest of the password
get_password_hash(password, salt) ==
    [scheme |-> "bcrypt", salt |-> salt, digest |-> <<salt, password>>]

\* variant: every password is accepted
verify_password_any(plain_password, hashed_password) ==
    hashed_password.scheme = "bcrypt"

verify_password(plain_password, hashed_password) ==
    hashed_password = get_password_hash(plain_password, hashed_password.salt)

\* HS256 signature of a claim set under a key
Sign(payload, key) == <<ALGORITHM, key, payload>>

\* jose.jwt.encode: the serialized token is the claims and their signature
jwt_encode(payload, key) == [payload |-> payload, sig |-> Sign(payload, key)]

\* variant: the supplied claims are signed instead of the copy that carries
\* the expiration
create_access_token_noexp(data, expires_delta, now) ==
    jwt_encode(data, SECRET_KEY)

\* claims with the expiration added; the supplied claims are copied
create_access_token(data, expires_delta, now) ==
    LET expire == IF expires_delta # 0 THEN now + expires_delta
                  ELSE now + timedelta(15)
        to_encode == [k \in (DOMAIN data) \cup {"exp"} |->
                         IF k = "exp" THEN expire ELSE data[k]]
    IN  jwt_encode(to_encode, SECRET_KEY)

\* variant: the expiration is not looked at
decode_token_noexp(token, now) ==
    IF token.sig # Sign(token.payload, SECRET_KEY) THEN NULL
    ELSE <<token.payload>>

\* the claims, or NULL when jose raises JWTError: the token is malformed, the
\* signature does not verify, or the expiration has passed
decode_token(token, now) ==
    IF token.sig # Sign(token.payload, SECRET_KEY) THEN NULL
    ELSE IF "exp" \in DOMAIN token.payload /\ token.payload["exp"] < now THEN NULL
    ELSE <<token.payload>>

\* variant: the token itself is kept in place of its digest
Sha256_plain(token) == <<"raw", token>>

\* hashlib.sha256(token.encode()).hexdigest(): a one-way digest of the token
Sha256(token) == <<"sha256", token>>

\* json.dumps of the scope list
JsonDumps(scopes) == <<"json", scopes>>

\* a token whose signature byte has been flipped
Tamper(token) == [token EXCEPT !.sig = <<ALGORITHM, "flipped", token.payload>>]

\* a string that is not a three-part signed token
Malformed == [payload |-> [raw |-> "not.a.jwt"], sig |-> <<>>]

\* a validly signed token that carries no subject claim
StripSub(token) ==
    LET p == token.payload
    IN  jwt_encode([k \in (DOMAIN p) \ {"sub"} |-> p[k]], SECRET_KEY)

\* ------------------------------------------------------------------ state
VARIABLES users, jwt_tokens, now, nextId, issued, last

\* the todo and campaign tables, and the last request to a resource endpoint
VARIABLES todos, campaigns, req

\* the requests in flight: for each worker, the step its request has reached
\* and what the request holds in its own session
VARIABLES calls

resvars == <<todos, campaigns, req, calls>>

vars ==
    <<users, jwt_tokens, now, nextId, issued, last, todos, campaigns, req, calls>>

\* the server's request workers
Workers == {1, 2}

Idle == [w \in Workers |-> [pc |-> "idle"]]

\* validator registrations performed when the auth package is imported
RegisteredAuth == { <<"JWTToken", "CREATE">> }

\* validator registrations performed when the users package is imported
RegisteredUsers ==
    { <<"User", "CREATE">>, <<"User", "UPDATE">>, <<"User", "DELETE">> }

\* validator registrations performed when the todos package is imported
RegisteredTodos == { <<"Todo", "CREATE">>, <<"Todo", "UPDATE">> }

\* validator registrations performed when the campaigns package is imported
RegisteredCampaigns == { <<"Campaign", "CREATE">>, <<"Campaign", "UPDATE">> }

Registered ==
    RegisteredAuth \cup RegisteredUsers \cup RegisteredTodos \cup RegisteredCampaigns

\* the schema each register() call stored for the pair
RegisteredSchema(entity_type, operation) ==
    CASE entity_type = "JWTToken" /\ operation = "CREATE" -> "CreateJWTTokenValidator"
      [] entity_type = "User" /\ operation = "CREATE" -> "CreateUserValidator"
      [] entity_type = "User" /\ operation = "UPDATE" -> "UpdateUserValidator"
      [] entity_type = "User" /\ operation = "DELETE" -> "DeleteUserValidator"
      [] entity_type = "Todo" /\ operation = "CREATE" -> "TodoCreateValidator"
      [] entity_type = "Todo" /\ operation = "UPDATE" -> "TodoUpdateValidator"
      [] entity_type = "Campaign" /\ operation = "CREATE" -> "CampaignCreateValidator"
      [] entity_type = "Campaign" /\ operation = "UPDATE" -> "CampaignUpdateValidator"
      [] OTHER -> "unknown operation"

\* the get_validator classmethod of each entity class
get_validator(entity_type, operation) ==
    CASE entity_type = "Todo" -> "TodoCreateValidator"
      [] entity_type = "Campaign" /\ operation = "CREATE" -> "CampaignCreateValidator"
      [] entity_type = "Campaign" /\ operation = "UPDATE" -> "CampaignUpdateValidator"
      [] entity_type = "User" /\ operation = "CREATE" -> "CreateUserValidator"
      [] entity_type = "User" /\ operation = "UPDATE" -> "UpdateUserValidator"
      [] entity_type = "User" /\ operation = "DELETE" -> "DeleteUserValidator"
      [] entity_type = "JWTToken" /\ operation = "CREATE" -> "CreateJWTTokenValidator"
      [] OTHER -> "ValueError"

\* BaseValidator.validate: fails when no schema is registered for the pair
validate(entity_type, operation) ==
    IF <<entity_type, operation>> \in Registered THEN "ok" ELSE "unknown operation"

get_user_by_username(username) == {u \in users : u.username = username}

get_user_by_email(email) == {u \in users : u.email = email}

get_by_hash(token_hash) == {r \in jwt_tokens : r.token_hash = token_hash}

\* variant: the password check is skipped
authenticate_user_noverify(username, password) ==
    get_user_by_username(username)

\* variant: an inactive identity is refused
authenticate_user_active(username, password) ==
    LET found == get_user_by_username(username)
    IN  IF found = {} THEN {}
        ELSE {u \in found : u.is_active /\ verify_password(password, u.hashed_password)}

\* UserService.authenticate_user: the identity, or nothing
authenticate_user(username, password) ==
    LET found == get_user_by_username(username)
    IN  IF found = {} THEN {}
        ELSE {u \in found : verify_password(password, u.hashed_password)}

\* rows the store may hold when the service starts: an identity whose
\* last_login column is set, a token issued to it, and its ledger record
SeedUser ==
    [id |-> 0, username |-> "bob", email |-> "b@x",
     hashed_password |-> get_password_hash("pw1", "s1"),
     is_active |-> TRUE, is_admin |-> FALSE, last_login |-> <<0>>]

SeedToken ==
    create_access_token(
        [sub |-> "bob", user_id |-> 0, email |-> "b@x", scopes |-> <<"me">>],
        timedelta(LOGIN_TTL_MINUTES), 0)

SeedRow(revoked) ==
    [id |-> 0, token_hash |-> Sha256(SeedToken), user_id |-> 0,
     expires_at |-> 0 + timedelta(LOGIN_TTL_MINUTES),
     scopes |-> JsonDumps(<<"me">>), is_revoked |-> revoked]

Init ==
    /\ now = 0
    /\ nextId = 1
    /\ last = [op |-> "init"]
    /\ todos = {}
    /\ campaigns = {}
    /\ req = [op |-> "none"]
    /\ calls = Idle
    /\ \/ users = {} /\ jwt_tokens = {} /\ issued = {}
       \/ users = {SeedUser} /\ jwt_tokens = {} /\ issued = {}
       \/ /\ users = {SeedUser}
          /\ issued = {SeedToken}
          /\ \E revoked \in BOOLEAN : jwt_tokens = {SeedRow(revoked)}

\* the passage of wall-clock time
Tick ==
    /\ now + TickSeconds <= MaxClock
    /\ now' = now + TickSeconds
    /\ last' = [op |-> "tick"]
    /\ UNCHANGED <<users, jwt_tokens, nextId, issued, resvars>>

\* tokens a client can present: those handed out, and forgeries made from them
Presentable ==
    issued \cup {Tamper(t) : t \in issued} \cup {StripSub(t) : t \in issued}
        \cup {Malformed}

\* POST /users/ : UserService.create_user
Register(username, email, password, salt) ==
    LET by_name == get_user_by_username(username)
        by_email == get_user_by_email(email)
        user == [id |-> nextId, username |-> username, email |-> email,
                 hashed_password |-> get_password_hash(password, salt),
                 is_active |-> TRUE, is_admin |-> FALSE, last_login |-> NULL]
    IN  /\ (nextId - 1) + Cardinality(issued) < MaxWrites
        /\ validate("User", "CREATE") = "ok"
        /\ IF by_name # {}
           THEN /\ last' = [op |-> "register", username |-> username, email |-> email,
                            status |-> 400, detail |-> "Username already registered"]
                /\ UNCHANGED <<users, nextId>>
           ELSE IF by_email # {}
           THEN /\ last' = [op |-> "register", username |-> username, email |-> email,
                            status |-> 400, detail |-> "Email already registered"]
                /\ UNCHANGED <<users, nextId>>
           ELSE /\ users' = users \cup {user}
                /\ nextId' = nextId + 1
                /\ last' = [op |-> "register", username |-> username, email |-> email,
                            status |-> 201, detail |-> ""]
        /\ UNCHANGED <<jwt_tokens, now, issued, resvars>>

\* UserService.delete -> BaseRepository.delete
DeleteUser(username) ==
    LET db_user == get_user_by_username(username)
    IN  /\ users' = users \ db_user
        /\ last' = [op |-> "delete", username |-> username, result |-> (db_user # {})]
        /\ UNCHANGED <<jwt_tokens, now, nextId, issued, resvars>>

\* variant: the new row replaces the rows the same identity already has
save_replace(entity, commit_ok) ==
    IF get_by_hash(entity.token_hash) # {}
    THEN [raised |-> "IntegrityError", rows |-> jwt_tokens]
    ELSE IF ~commit_ok
    THEN [raised |-> "OperationalError", rows |-> jwt_tokens]
    ELSE [raised |-> "",
          rows |-> {r \in jwt_tokens : r.user_id # entity.user_id} \cup {entity}]

\* variant: a failed commit is rolled back but not re-raised
save_swallow(entity, commit_ok) ==
    IF get_by_hash(entity.token_hash) # {} \/ ~commit_ok
    THEN [raised |-> "", rows |-> jwt_tokens]
    ELSE [raised |-> "", rows |-> jwt_tokens \cup {entity}]

\* BaseRepository.save on the token ledger: the rows after the commit, or the
\* failure it re-raises after the rollback
save(entity, commit_ok) ==
    IF get_by_hash(entity.token_hash) # {}
    THEN [raised |-> "IntegrityError", rows |-> jwt_tokens]
    ELSE IF ~commit_ok
    THEN [raised |-> "OperationalError", rows |-> jwt_tokens]
    ELSE [raised |-> "", rows |-> jwt_tokens \cup {entity}]

\* variant: the detail tells an unknown username from a wrong password
LoginFailure_reveal(username, password, scopes, status, detail, user) ==
    [op |-> "login", username |-> username, password |-> password,
     req_scopes |-> scopes, status |-> status,
     detail |-> IF status = 401 /\ get_user_by_username(username) = {}
                THEN "User not found" ELSE detail,
     headers |-> IF status = 401 THEN <<"WWW-Authenticate", "Bearer">> ELSE <<>>,
     access_token |-> NULL, token_type |-> "", expires_in |-> 0,
     scopes |-> <<>>, user |-> user]

\* the response of a login that returned no token; the 401 carries the
\* WWW-Authenticate header
LoginFailure(username, password, scopes, status, detail, user) ==
    [op |-> "login", username |-> username, password |-> password,
     req_scopes |-> scopes, status |-> status, detail |-> detail,
     headers |-> IF status = 401 THEN <<"WWW-Authenticate", "Bearer">> ELSE <<>>,
     access_token |-> NULL, token_type |-> "", expires_in |-> 0,
     scopes |-> <<>>, user |-> user]

\* POST /auth/login : AuthService.authenticate_user; commit_ok is whether the
\* store accepts the commit
Login(username, password, req_scopes, commit_ok) ==
    LET user == authenticate_user(username, password)
        u == CHOOSE x \in user : TRUE
        scopes == IF req_scopes = <<>> THEN <<"me">> ELSE req_scopes
        access_token_expires == timedelta(LOGIN_TTL_MINUTES)
        access_token ==
            create_access_token(
                [sub |-> u.username, user_id |-> u.id, email |-> u.email,
                 scopes |-> scopes],
                access_token_expires, now)
        token_hash == Sha256(access_token)
        token_model ==
            [id |-> Cardinality(jwt_tokens) + 1, token_hash |-> token_hash,
             user_id |-> u.id,
             expires_at |-> u.last_login[1] + access_token_expires,
             scopes |-> JsonDumps(scopes), is_revoked |-> FALSE]
        saved == save(token_model, commit_ok)
    IN  /\ IF user = {}
           THEN /\ last' = LoginFailure(username, password, req_scopes, 401,
                                        "Incorrect username or password", {})
                /\ UNCHANGED <<jwt_tokens, issued>>
           ELSE IF u.last_login = NULL
           THEN \* None + timedelta raises TypeError
                /\ last' = LoginFailure(username, password, req_scopes, 500,
                                        "TypeError", user)
                /\ UNCHANGED <<jwt_tokens, issued>>
           ELSE IF validate("JWTToken", "CREATE") # "ok"
           THEN /\ last' = LoginFailure(username, password, req_scopes, 500,
                                        "ValueError", user)
                /\ UNCHANGED <<jwt_tokens, issued>>
           ELSE IF saved.raised # ""
           THEN /\ last' = LoginFailure(username, password, req_scopes, 500,
                                        saved.raised, user)
                /\ jwt_tokens' = saved.rows
                /\ UNCHANGED issued
           ELSE /\ (nextId - 1) + Cardinality(issued) < MaxWrites
                /\ jwt_tokens' = saved.rows
                /\ issued' = issued \cup {access_token}
                /\ last' = [op |-> "login", username |-> username,
                            password |-> password, req_scopes |-> req_scopes,
                            status |-> 200, detail |-> "",
                            access_token |-> <<access_token>>,
                            token_type |-> "bearer",
                            expires_in |-> access_token_expires % 86400,
                            scopes |-> scopes, user |-> user]
        /\ UNCHANGED <<users, now, nextId, resvars>>

\* POST /users/token : login_for_access_token
LoginForAccessToken(username, password, form_scopes) ==
    LET user == authenticate_user(username, password)
        u == CHOOSE x \in user : TRUE
        scopes == IF form_scopes = <<>> THEN <<"me">> ELSE form_scopes
        access_token ==
            create_access_token([sub |-> u.username, scopes |-> scopes],
                                timedelta(ACCESS_TOKEN_EXPIRE_MINUTES), now)
    IN  /\ IF user = {}
           THEN /\ last' = [op |-> "token", username |-> username,
                            password |-> password, status |-> 401,
                            detail |-> "Incorrect username or password",
                            headers |-> <<"WWW-Authenticate", "Bearer">>,
                            access_token |-> NULL, user |-> {}]
                /\ UNCHANGED issued
           ELSE /\ (nextId - 1) + Cardinality(issued) < MaxWrites
                /\ issued' = issued \cup {access_token}
                /\ last' = [op |-> "token", username |-> username,
                            password |-> password, status |-> 200, detail |-> "",
                            access_token |-> <<access_token>>, user |-> user]
        /\ UNCHANGED <<users, jwt_tokens, now, nextId, resvars>>

\* variant: the scopes reported are derived from the identity's role
validate_token_rolescopes(token) ==
    LET payload == decode_token(token, now)
        p == payload[1]
        stored_token == get_by_hash(Sha256(token))
        user == get_user_by_username(p["sub"])
        u == CHOOSE x \in user : TRUE
    IN  IF payload = NULL
        THEN [valid |-> FALSE, error |-> "Invalid token", user |-> NULL]
        ELSE IF "sub" \notin DOMAIN p
        THEN [valid |-> FALSE, error |-> "Missing user information", user |-> NULL]
        ELSE IF \E r \in stored_token : r.is_revoked
        THEN [valid |-> FALSE, error |-> "Token revoked", user |-> NULL]
        ELSE IF user = {}
        THEN [valid |-> FALSE, error |-> "User not found", user |-> NULL]
        ELSE [valid |-> TRUE, error |-> "",
              user |-> <<[id |-> u.id, username |-> u.username, email |-> u.email,
                          roles |-> IF u.is_admin THEN <<"user", "admin">>
                                    ELSE <<"user">>,
                          scopes |-> IF u.is_admin THEN <<"me", "admin">>
                                     ELSE <<"me">>]>>]

\* variant: the identity lookup runs before the revocation check
validate_token_userfirst(token) ==
    LET payload == decode_token(token, now)
        p == payload[1]
        stored_token == get_by_hash(Sha256(token))
        user == get_user_by_username(p["sub"])
        u == CHOOSE x \in user : TRUE
    IN  IF payload = NULL
        THEN [valid |-> FALSE, error |-> "Invalid token", user |-> NULL]
        ELSE IF "sub" \notin DOMAIN p
        THEN [valid |-> FALSE, error |-> "Missing user information", user |-> NULL]
        ELSE IF user = {}
        THEN [valid |-> FALSE, error |-> "User not found", user |-> NULL]
        ELSE IF \E r \in stored_token : r.is_revoked
        THEN [valid |-> FALSE, error |-> "Token revoked", user |-> NULL]
        ELSE [valid |-> TRUE, error |-> "",
              user |-> <<[id |-> u.id, username |-> u.username, email |-> u.email,
                          roles |-> IF u.is_admin THEN <<"user", "admin">>
                                    ELSE <<"user">>,
                          scopes |-> IF "scopes" \in DOMAIN p THEN p["scopes"]
                                     ELSE <<>>]>>]

\* variant: a token without a ledger record is refused
validate_token_strict(token) ==
    LET payload == decode_token(token, now)
        p == payload[1]
        stored_token == get_by_hash(Sha256(token))
        user == get_user_by_username(p["sub"])
        u == CHOOSE x \in user : TRUE
    IN  IF payload = NULL
        THEN [valid |-> FALSE, error |-> "Invalid token", user |-> NULL]
        ELSE IF "sub" \notin DOMAIN p
        THEN [valid |-> FALSE, error |-> "Missing user information", user |-> NULL]
        ELSE IF stored_token = {} \/ \E r \in stored_token : r.is_revoked
        THEN [valid |-> FALSE, error |-> "Token revoked", user |-> NULL]
        ELSE IF user = {}
        THEN [valid |-> FALSE, error |-> "User not found", user |-> NULL]
        ELSE [valid |-> TRUE, error |-> "",
              user |-> <<[id |-> u.id, username |-> u.username, email |-> u.email,
                          roles |-> IF u.is_admin THEN <<"user", "admin">>
                                    ELSE <<"user">>,
                          scopes |-> IF "scopes" \in DOMAIN p THEN p["scopes"]
                                     ELSE <<>>]>>]

\* AuthService.validate_token
validate_token(token) ==
    LET payload == decode_token(token, now)
        p == payload[1]
        token_hash == Sha256(token)
        stored_token == get_by_hash(token_hash)
        user == get_user_by_username(p["sub"])
        u == CHOOSE x \in user : TRUE
    IN  IF payload = NULL
        THEN [valid |-> FALSE, error |-> "Invalid token", user |-> NULL]
        ELSE IF "sub" \notin DOMAIN p
        THEN [valid |-> FALSE, error |-> "Missing user information", user |-> NULL]
        ELSE IF \E r \in stored_token : r.is_revoked
        THEN [valid |-> FALSE, error |-> "Token revoked", user |-> NULL]
        ELSE IF user = {}
        THEN [valid |-> FALSE, error |-> "User not found", user |-> NULL]
        ELSE [valid |-> TRUE, error |-> "",
              user |-> <<[id |-> u.id, username |-> u.username, email |-> u.email,
                          roles |-> IF u.is_admin THEN <<"user", "admin">>
                                    ELSE <<"user">>,
                          scopes |-> IF "scopes" \in DOMAIN p THEN p["scopes"]
                                     ELSE <<>>]>>]

\* validate_token when the store cannot be reached: the first query raises and
\* the except clause turns the exception into an ordinary response
validate_token_store_down(token) ==
    LET payload == decode_token(token, now)
        p == payload[1]
    IN  IF payload = NULL
        THEN [valid |-> FALSE, error |-> "Invalid token", user |-> NULL]
        ELSE IF "sub" \notin DOMAIN p
        THEN [valid |-> FALSE, error |-> "Missing user information", user |-> NULL]
        ELSE [valid |-> FALSE, error |-> "OperationalError", user |-> NULL]

\* POST /auth/validate; store_ok is whether the store answers queries. The
\* route returns whatever the service returns, so the status is always 200.
Validate(token, store_ok) ==
    LET resp == IF store_ok THEN validate_token(token)
                ELSE validate_token_store_down(token)
    IN  /\ last' = [op |-> "validate", token |-> token, status |-> 200,
                    caught |-> IF resp.error = "OperationalError"
                               THEN "OperationalError" ELSE "",
                    resp |-> resp]
        /\ UNCHANGED <<users, jwt_tokens, now, nextId, issued, resvars>>

\* variant: the "admin" scope satisfies every requirement
get_current_user_adminall(token, security_scopes) ==
    LET payload == decode_token(token, now)
        p == payload[1]
        token_scopes == IF "scopes" \in DOMAIN p THEN SeqToSet(p["scopes"]) ELSE {}
    IN  IF payload = NULL THEN [status |-> 401, user |-> {}]
        ELSE IF "sub" \notin DOMAIN p THEN [status |-> 401, user |-> {}]
        ELSE IF /\ "admin" \notin token_scopes
                /\ \E i \in 1..Len(security_scopes) :
                      security_scopes[i] \notin token_scopes
        THEN [status |-> 403, user |-> {}]
        ELSE IF get_user_by_username(p["sub"]) = {} THEN [status |-> 401, user |-> {}]
        ELSE [status |-> 200, user |-> get_user_by_username(p["sub"])]

\* variant: the identity is looked up before the scopes are checked
get_current_user_lookupfirst(token, security_scopes) ==
    LET payload == decode_token(token, now)
        p == payload[1]
        token_scopes == IF "scopes" \in DOMAIN p THEN SeqToSet(p["scopes"]) ELSE {}
    IN  IF payload = NULL THEN [status |-> 401, user |-> {}]
        ELSE IF "sub" \notin DOMAIN p THEN [status |-> 401, user |-> {}]
        ELSE IF get_user_by_username(p["sub"]) = {} THEN [status |-> 401, user |-> {}]
        ELSE IF \E i \in 1..Len(security_scopes) :
                   security_scopes[i] \notin token_scopes
        THEN [status |-> 403, user |-> {}]
        ELSE [status |-> 200, user |-> get_user_by_username(p["sub"])]

\* get_current_user: the status the dependency resolves to
get_current_user(token, security_scopes) ==
    LET payload == decode_token(token, now)
        p == payload[1]
        token_scopes == IF "scopes" \in DOMAIN p THEN SeqToSet(p["scopes"]) ELSE {}
    IN  IF payload = NULL THEN [status |-> 401, user |-> {}]
        ELSE IF "sub" \notin DOMAIN p THEN [status |-> 401, user |-> {}]
        ELSE IF \E i \in 1..Len(security_scopes) : security_scopes[i] \notin token_scopes
        THEN [status |-> 403, user |-> {}]
        ELSE IF get_user_by_username(p["sub"]) = {} THEN [status |-> 401, user |-> {}]
        ELSE [status |-> 200, user |-> get_user_by_username(p["sub"])]

\* a request to an endpoint protected by Security(get_current_user, scopes=...)
Gate(token, security_scopes) ==
    /\ last' = [op |-> "gate", token |-> token, required |-> security_scopes,
                resp |-> get_current_user(token, security_scopes)]
    /\ UNCHANGED <<users, jwt_tokens, now, nextId, issued, resvars>>

\* BaseRepository.update on the token ledger: the rows after the update, or
\* the failure it raises
update(id, update_data, operation) ==
    LET entity == {r \in jwt_tokens : r.id = id}
    IN  IF entity = {} THEN [raised |-> "", rows |-> jwt_tokens]
        ELSE IF validate("JWTToken", operation) # "ok"
        THEN [raised |-> validate("JWTToken", operation), rows |-> jwt_tokens]
        ELSE [raised |-> "",
              rows |-> {IF r.id = id THEN [r EXCEPT !.is_revoked = update_data.is_revoked]
                        ELSE r : r \in jwt_tokens}]

\* JWTTokenRepository.revoke_token
Revoke(token_hash) ==
    LET token == get_by_hash(token_hash)
        t == CHOOSE x \in token : TRUE
        upd == update(t.id, [is_revoked |-> TRUE], "UPDATE")
    IN  /\ IF token = {}
           THEN /\ last' = [op |-> "revoke", token_hash |-> token_hash,
                            found |-> token, raised |-> "", result |-> FALSE]
                /\ UNCHANGED jwt_tokens
           ELSE IF upd.raised # ""
           THEN /\ last' = [op |-> "revoke", token_hash |-> token_hash,
                            found |-> token, raised |-> upd.raised, result |-> FALSE]
                /\ UNCHANGED jwt_tokens
           ELSE /\ jwt_tokens' = upd.rows
                /\ last' = [op |-> "revoke", token_hash |-> token_hash,
                            found |-> token, raised |-> "", result |-> TRUE]
        /\ UNCHANGED <<users, now, nextId, issued, resvars>>

Next ==
    \/ Tick
    \/ \E username \in Usernames, email \in Emails,
          password \in RegisterPasswords, salt \in Salts : Register(username, email, password, salt)
    \/ \E username \in Usernames : DeleteUser(username)
    \/ \E username \in Usernames, password \in Passwords,
          req_scopes \in ScopeRequests, commit_ok \in BOOLEAN :
            Login(username, password, req_scopes, commit_ok)
    \/ \E username \in Usernames, password \in Passwords,
          form_scopes \in ScopeRequests :
            LoginForAccessToken(username, password, form_scopes)
    \/ \E token \in Presentable, store_ok \in BOOLEAN : Validate(token, store_ok)
    \/ \E token \in Presentable, security_scopes \in GateScopes :
            Gate(token, security_scopes)
    \/ \E token \in issued \cup {Tamper(t) : t \in issued} : Revoke(Sha256(token))

Spec == Init /\ [][Next]_vars

\* the service started on a store whose one identity has is_active set either
\* way, with a token issued to it and recorded
InitActive ==
    /\ now = 0
    /\ nextId = 1
    /\ last = [op |-> "init"]
    /\ todos = {}
    /\ campaigns = {}
    /\ req = [op |-> "none"]
    /\ calls = Idle
    /\ \E active \in BOOLEAN : users = {[SeedUser EXCEPT !.is_active = active]}
    /\ issued = {SeedToken}
    /\ jwt_tokens = {SeedRow(FALSE)}

\* the operations that consult an identity
NextActive ==
    \/ Tick
    \/ \E username \in Usernames, password \in Passwords,
          req_scopes \in ScopeRequests, commit_ok \in BOOLEAN :
            Login(username, password, req_scopes, commit_ok)
    \/ \E username \in Usernames, password \in Passwords,
          form_scopes \in ScopeRequests :
            LoginForAccessToken(username, password, form_scopes)
    \/ \E token \in Presentable, store_ok \in BOOLEAN : Validate(token, store_ok)
    \/ \E token \in Presentable, security_scopes \in GateScopes :
            Gate(token, security_scopes)

SpecActive == InitActive /\ [][NextActive]_vars

\* --------------------------------------------------- resource endpoints
MaxTodos == 2
MaxCampaigns == 1

TodoIds == 1..MaxTodos
CampaignIds == 1..MaxCampaigns
Titles == {"", "t1"}
Names == {"c1"}
Statuses == {"draft", "active", "bogus"}
Completions == {NULL, <<TRUE>>, <<FALSE>>}

allowed_statuses == {"draft", "active", "paused", "completed", "cancelled"}

\* tokens POST /users/token hands to bob for the scope lists he asks for
ResScopes ==
    {<<"me">>, <<"campaigns:read", "campaigns:write", "campaigns:manage">>}

\* a token handed to alice, whose identity has since been deleted
GoneToken ==
    create_access_token([sub |-> "alice", scopes |-> <<"me">>],
                        timedelta(ACCESS_TOKEN_EXPIRE_MINUTES), 0)

ResTokens ==
    {create_access_token([sub |-> "bob", scopes |-> scopes],
                         timedelta(ACCESS_TOKEN_EXPIRE_MINUTES), 0) :
        scopes \in ResScopes} \cup {GoneToken}

\* the Authorization header of a request: absent, or a bearer token, genuine
\* or forged
Authorizations ==
    {NULL} \cup {<<t>> : t \in ResTokens \cup {Malformed, StripSub(GoneToken)}}

\* the header as the todo handlers see it: they declare no dependency that
\* reads it, so absent and present are the two cases
TodoAuthorizations ==
    {NULL, <<create_access_token([sub |-> "bob", scopes |-> <<"me">>],
                                 timedelta(ACCESS_TOKEN_EXPIRE_MINUTES), 0)>>}

\* Security(get_current_user, scopes=...) behind oauth2_scheme: the status the
\* dependency resolves to; a request without the header is refused by the scheme
Security(authorization, scopes) ==
    IF authorization = NULL THEN 401
    ELSE get_current_user(authorization[1], scopes).status

\* the schema registered for (Todo, CREATE)
TodoCreateValidator(attrs) == attrs.title # ""

\* the end_date rule of CampaignBase and CampaignCreateValidator
validate_end_date(attrs) ==
    (attrs.end_date # NULL /\ attrs.start_date # NULL)
    => attrs.end_date[1] > attrs.start_date[1]

\* the schema registered for (Campaign, CREATE)
CampaignCreateValidator(attrs) ==
    /\ attrs.name # ""
    /\ attrs.status \in allowed_statuses
    /\ validate_end_date(attrs)

\* the schema registered for (Campaign, UPDATE): no rule relates the dates
CampaignUpdateValidator(update_data) ==
    "status" \in DOMAIN update_data => update_data.status \in allowed_statuses

\* BaseRepository.generate_id: an id no stored row has
generate_id(rows, ids) == CHOOSE i \in ids : i \notin {r.id : r \in rows}

\* the record of a request to a resource endpoint: its header, the status
\* answered and the (entity type, operation) pairs it passed to the registry
Request(op, authorization, id, status, validated) ==
    [op |-> op, authorization |-> authorization, id |-> id, status |-> status,
     validated |-> validated]

\* POST /todos/
create_todo(authorization, title, completed) ==
    LET attrs == [title |-> title, completed |-> completed]
        todo == [id |-> generate_id(todos, TodoIds), title |-> title,
                 completed |-> completed]
    IN  /\ Cardinality(todos) < MaxTodos
        /\ IF title = ""
           THEN /\ req' = Request("create_todo", authorization, 0, 422, {})
                /\ UNCHANGED todos
           ELSE IF validate("Todo", "CREATE") # "ok" \/ ~TodoCreateValidator(attrs)
           THEN /\ req' = Request("create_todo", authorization, 0, 400,
                                  {<<"Todo", "CREATE">>})
                /\ UNCHANGED todos
           ELSE /\ todos' = todos \cup {todo}
                /\ req' = Request("create_todo", authorization, todo.id, 200,
                                  {<<"Todo", "CREATE">>})
        /\ UNCHANGED <<users, jwt_tokens, now, nextId, issued, last, calls, campaigns>>

\* GET /todos/{todo_id}
get_todo(authorization, todo_id) ==
    /\ req' = Request("get_todo", authorization, todo_id,
                      IF \E t \in todos : t.id = todo_id THEN 200 ELSE 404, {})
    /\ UNCHANGED <<users, jwt_tokens, now, nextId, issued, last, calls, todos, campaigns>>

\* PUT /todos/{todo_id} : BaseRepository.update
update_todo(authorization, todo_id, completed) ==
    /\ IF completed = NULL
       THEN /\ req' = Request("update_todo", authorization, todo_id, 400, {})
            /\ UNCHANGED todos
       ELSE IF ~\E t \in todos : t.id = todo_id
       THEN /\ req' = Request("update_todo", authorization, todo_id, 404, {})
            /\ UNCHANGED todos
       ELSE IF validate("Todo", "UPDATE") # "ok"
       THEN /\ req' = Request("update_todo", authorization, todo_id, 500,
                              {<<"Todo", "UPDATE">>})
            /\ UNCHANGED todos
       ELSE /\ todos' = {IF t.id = todo_id THEN [t EXCEPT !.completed = completed[1]]
                         ELSE t : t \in todos}
            /\ req' = Request("update_todo", authorization, todo_id, 200,
                              {<<"Todo", "UPDATE">>})
    /\ UNCHANGED <<users, jwt_tokens, now, nextId, issued, last, calls, campaigns>>

\* TodoRepository.toggle_completed: the rows after the commit
toggle_completed(id) ==
    {IF t.id = id THEN [t EXCEPT !.completed = ~t.completed] ELSE t : t \in todos}

\* PATCH /todos/{todo_id}/toggle
toggle_todo(authorization, todo_id) ==
    /\ IF ~\E t \in todos : t.id = todo_id
       THEN /\ req' = Request("toggle_todo", authorization, todo_id, 404, {})
            /\ UNCHANGED todos
       ELSE /\ todos' = toggle_completed(todo_id)
            /\ req' = Request("toggle_todo", authorization, todo_id, 200, {})
    /\ UNCHANGED <<users, jwt_tokens, now, nextId, issued, last, calls, campaigns>>

\* DELETE /todos/{todo_id} : BaseRepository.delete
delete_todo(authorization, todo_id) ==
    /\ todos' = {t \in todos : t.id # todo_id}
    /\ req' = Request("delete_todo", authorization, todo_id,
                      IF \E t \in todos : t.id = todo_id THEN 200 ELSE 404, {})
    /\ UNCHANGED <<users, jwt_tokens, now, nextId, issued, last, calls, campaigns>>

\* POST /campaigns/
create_campaign(authorization, name, status, start_date, end_date) ==
    LET gate == Security(authorization, <<"campaigns:write">>)
        attrs == [name |-> name, status |-> status, start_date |-> start_date,
                  end_date |-> end_date]
        campaign == [id |-> generate_id(campaigns, CampaignIds), name |-> name,
                     status |-> status, start_date |-> start_date,
                     end_date |-> end_date, is_active |-> TRUE]
    IN  /\ Cardinality(campaigns) < MaxCampaigns
        /\ IF gate # 200
           THEN /\ req' = Request("create_campaign", authorization, 0, gate, {})
                /\ UNCHANGED campaigns
           ELSE IF status \notin allowed_statuses \/ ~validate_end_date(attrs)
           THEN /\ req' = Request("create_campaign", authorization, 0, 422, {})
                /\ UNCHANGED campaigns
           ELSE IF \/ validate("Campaign", "CREATE") # "ok"
                   \/ ~CampaignCreateValidator(attrs)
           THEN /\ req' = Request("create_campaign", authorization, 0, 400,
                                  {<<"Campaign", "CREATE">>})
                /\ UNCHANGED campaigns
           ELSE /\ campaigns' = campaigns \cup {campaign}
                /\ req' = Request("create_campaign", authorization, campaign.id, 200,
                                  {<<"Campaign", "CREATE">>})
        /\ UNCHANGED <<users, jwt_tokens, now, nextId, issued, last, calls, todos>>

\* GET /campaigns/{campaign_id}
get_campaign(authorization, campaign_id) ==
    LET gate == Security(authorization, <<"campaigns:read">>)
    IN  /\ req' = Request("get_campaign", authorization, campaign_id,
                          IF gate # 200 THEN gate
                          ELSE IF \E c \in campaigns : c.id = campaign_id THEN 200
                          ELSE 404, {})
        /\ UNCHANGED <<users, jwt_tokens, now, nextId, issued, last, calls, todos, campaigns>>

\* CampaignRepository.update_status: the rows after the commit
update_status(id, new_status) ==
    {IF c.id = id THEN [c EXCEPT !.status = new_status] ELSE c : c \in campaigns}

\* PATCH /campaigns/{campaign_id}/status
update_campaign_status(authorization, campaign_id, new_status) ==
    LET gate == Security(authorization, <<"campaigns:manage">>)
    IN  /\ IF gate # 200
           THEN /\ req' = Request("update_campaign_status", authorization,
                                  campaign_id, gate, {})
                /\ UNCHANGED campaigns
           ELSE IF new_status \notin allowed_statuses
           THEN /\ req' = Request("update_campaign_status", authorization,
                                  campaign_id, 400, {})
                /\ UNCHANGED campaigns
           ELSE IF ~\E c \in campaigns : c.id = campaign_id
           THEN /\ req' = Request("update_campaign_status", authorization,
                                  campaign_id, 404, {})
                /\ UNCHANGED campaigns
           ELSE /\ campaigns' = update_status(campaign_id, new_status)
                /\ req' = Request("update_campaign_status", authorization,
                                  campaign_id, 200, {})
        /\ UNCHANGED <<users, jwt_tokens, now, nextId, issued, last, calls, todos>>

\* CampaignRepository.toggle_active_status: the rows after the commit
toggle_active_status(id) ==
    {IF c.id = id THEN [c EXCEPT !.is_active = ~c.is_active] ELSE c : c \in campaigns}

\* PATCH /campaigns/{campaign_id}/toggle-active
toggle_campaign_active(authorization, campaign_id) ==
    LET gate == Security(authorization, <<"campaigns:manage">>)
    IN  /\ IF gate # 200
           THEN /\ req' = Request("toggle_campaign_active", authorization,
                                  campaign_id, gate, {})
                /\ UNCHANGED campaigns
           ELSE IF ~\E c \in campaigns : c.id = campaign_id
           THEN /\ req' = Request("toggle_campaign_active", authorization,
                                  campaign_id, 404, {})
                /\ UNCHANGED campaigns
           ELSE /\ campaigns' = toggle_active_status(campaign_id)
                /\ req' = Request("toggle_campaign_active", authorization,
                                  campaign_id, 200, {})
        /\ UNCHANGED <<users, jwt_tokens, now, nextId, issued, last, calls, todos>>

\* DELETE /campaigns/{campaign_id} : BaseRepository.delete
delete_campaign(authorization, campaign_id) ==
    LET gate == Security(authorization, <<"campaigns:manage">>)
    IN  /\ IF gate # 200
           THEN /\ req' = Request("delete_campaign", authorization, campaign_id,
                                  gate, {})
                /\ UNCHANGED campaigns
           ELSE /\ campaigns' = {c \in campaigns : c.id # campaign_id}
                /\ req' = Request("delete_campaign", authorization, campaign_id,
                                  IF \E c \in campaigns : c.id = campaign_id
                                  THEN 200 ELSE 404, {})
        /\ UNCHANGED <<users, jwt_tokens, now, nextId, issued, last, calls, todos>>

\* the date fields a PUT /campaigns/{campaign_id} body sets
update_fields(start_date, end_date) ==
    [k \in {f \in {"start_date", "end_date"} :
               IF f = "start_date" THEN start_date # NULL ELSE end_date # NULL}
        |-> IF k = "start_date" THEN start_date ELSE end_date]

\* PUT /campaigns/{campaign_id} : BaseRepository.update
update_campaign(authorization, campaign_id, start_date, end_date) ==
    LET gate == Security(authorization, <<"campaigns:write">>)
        update_data == update_fields(start_date, end_date)
    IN  /\ IF gate # 200
           THEN /\ req' = Request("update_campaign", authorization, campaign_id,
                                  gate, {})
                /\ UNCHANGED campaigns
           ELSE IF DOMAIN update_data = {}
           THEN /\ req' = Request("update_campaign", authorization, campaign_id,
                                  400, {})
                /\ UNCHANGED campaigns
           ELSE IF ~\E c \in campaigns : c.id = campaign_id
           THEN /\ req' = Request("update_campaign", authorization, campaign_id,
                                  404, {})
                /\ UNCHANGED campaigns
           ELSE IF \/ validate("Campaign", "UPDATE") # "ok"
                   \/ ~CampaignUpdateValidator(update_data)
           THEN /\ req' = Request("update_campaign", authorization, campaign_id,
                                  400, {<<"Campaign", "UPDATE">>})
                /\ UNCHANGED campaigns
           ELSE /\ campaigns' =
                     {IF c.id = campaign_id
                      THEN [k \in DOMAIN c |->
                              IF k \in DOMAIN update_data THEN update_data[k] ELSE c[k]]
                      ELSE c : c \in campaigns}
                /\ req' = Request("update_campaign", authorization, campaign_id,
                                  200, {<<"Campaign", "UPDATE">>})
        /\ UNCHANGED <<users, jwt_tokens, now, nextId, issued, last, calls, todos>>

\* CampaignRepository.find_by_date_range before pagination; a comparison with
\* a NULL column is never true
find_by_date_range(start_date, end_date) ==
    {c \in campaigns :
        \/ /\ c.start_date # NULL
           /\ c.start_date[1] >= start_date
           /\ c.start_date[1] <= end_date
        \/ /\ c.end_date # NULL
           /\ c.end_date[1] >= start_date
           /\ c.end_date[1] <= end_date
        \/ /\ c.start_date # NULL
           /\ c.end_date # NULL
           /\ c.start_date[1] <= start_date
           /\ c.end_date[1] >= end_date}

\* GET /campaigns/date-range/
get_campaigns_by_date_range(authorization, start_date, end_date) ==
    LET gate == Security(authorization, <<"campaigns:read">>)
        status == IF gate # 200 THEN gate
                  ELSE IF end_date <= start_date THEN 400 ELSE 200
    IN  /\ req' = [op |-> "get_campaigns_by_date_range",
                   authorization |-> authorization, status |-> status,
                   start_date |-> start_date, end_date |-> end_date,
                   result |-> IF status = 200
                              THEN find_by_date_range(start_date, end_date)
                              ELSE {}]
        /\ UNCHANGED <<users, jwt_tokens, now, nextId, issued, last, calls, todos, campaigns>>

\* the service with bob registered and holding the tokens he was handed
InitRes ==
    /\ users = {SeedUser}
    /\ jwt_tokens = {}
    /\ now = 0
    /\ nextId = 1
    /\ issued = ResTokens
    /\ last = [op |-> "init"]
    /\ todos = {}
    /\ campaigns = {}
    /\ req = [op |-> "none"]
    /\ calls = Idle

NextRes ==
    \/ \E authorization \in TodoAuthorizations, title \in Titles,
          completed \in BOOLEAN : create_todo(authorization, title, completed)
    \/ \E authorization \in TodoAuthorizations, todo_id \in TodoIds :
          get_todo(authorization, todo_id)
    \/ \E authorization \in TodoAuthorizations, todo_id \in TodoIds,
          completed \in Completions : update_todo(authorization, todo_id, completed)
    \/ \E authorization \in TodoAuthorizations, todo_id \in TodoIds :
          toggle_todo(authorization, todo_id)
    \/ \E authorization \in TodoAuthorizations, todo_id \in TodoIds :
          delete_todo(authorization, todo_id)
    \/ \E authorization \in Authorizations, name \in Names, status \in Statuses :
          create_campaign(authorization, name, status, NULL, NULL)
    \/ \E authorization \in Authorizations, campaign_id \in CampaignIds :
          get_campaign(authorization, campaign_id)
    \/ \E authorization \in Authorizations, campaign_id \in CampaignIds,
          new_status \in Statuses :
            update_campaign_status(authorization, campaign_id, new_status)
    \/ \E authorization \in Authorizations, campaign_id \in CampaignIds :
          toggle_campaign_active(authorization, campaign_id)
    \/ \E authorization \in Authorizations, campaign_id \in CampaignIds :
          delete_campaign(authorization, campaign_id)

SpecRes == InitRes /\ [][NextRes]_vars

\* campaign dates, and the bounds of a date-range query
Dates == {1, 2}
NullableDates == {NULL} \cup {<<d>> : d \in Dates}
RangeDates == {1, 2, 3}

\* the campaign endpoints that write or read the date columns
NextCamp ==
    \/ \E authorization \in Authorizations, name \in Names,
          start_date \in NullableDates, end_date \in NullableDates :
            create_campaign(authorization, name, "draft", start_date, end_date)
    \/ \E authorization \in Authorizations, campaign_id \in CampaignIds,
          start_date \in NullableDates, end_date \in NullableDates :
            update_campaign(authorization, campaign_id, start_date, end_date)
    \/ \E authorization \in Authorizations, start_date \in RangeDates,
          end_date \in RangeDates :
            get_campaigns_by_date_range(authorization, start_date, end_date)
    \/ \E authorization \in Authorizations, campaign_id \in CampaignIds :
          delete_campaign(authorization, campaign_id)

SpecCamp == InitRes /\ [][NextCamp]_vars

\* ------------------------------------------------- interleaved requests
\* UserService.create_user up to the save: the build and the two lookups, in
\* the request's own session
create_user_check(w, username, email, password, salt) ==
    /\ calls[w].pc \in {"idle", "done"}
    /\ validate("User", "CREATE") = "ok"
    /\ calls' = [calls EXCEPT ![w] =
                   IF get_user_by_username(username) # {}
                   THEN [pc |-> "done", op |-> "create_user", username |-> username,
                         email |-> email, status |-> 400,
                         detail |-> "Username already registered"]
                   ELSE IF get_user_by_email(email) # {}
                   THEN [pc |-> "done", op |-> "create_user", username |-> username,
                         email |-> email, status |-> 400,
                         detail |-> "Email already registered"]
                   ELSE [pc |-> "save", op |-> "create_user", username |-> username,
                         email |-> email,
                         hashed_password |-> get_password_hash(password, salt)]]
    /\ UNCHANGED <<users, jwt_tokens, now, nextId, issued, last, todos, campaigns, req>>

\* BaseRepository.save of the new identity: the unique indexes on username
\* and email refuse a duplicate, save rolls back and re-raises
create_user_save(w) ==
    LET c == calls[w]
        user == [id |-> nextId, username |-> c.username, email |-> c.email,
                 hashed_password |-> c.hashed_password,
                 is_active |-> TRUE, is_admin |-> FALSE, last_login |-> NULL]
    IN  /\ c.pc = "save"
        /\ c.op = "create_user"
        /\ IF \E u \in users : u.username = c.username \/ u.email = c.email
           THEN /\ calls' = [calls EXCEPT ![w] =
                               [pc |-> "done", op |-> "create_user",
                                username |-> c.username, email |-> c.email,
                                status |-> 500, detail |-> "IntegrityError"]]
                /\ UNCHANGED <<users, nextId>>
           ELSE /\ users' = users \cup {user}
                /\ nextId' = nextId + 1
                /\ calls' = [calls EXCEPT ![w] =
                               [pc |-> "done", op |-> "create_user",
                                username |-> c.username, email |-> c.email,
                                status |-> 201, detail |-> ""]]
        /\ UNCHANGED <<jwt_tokens, now, issued, last, todos, campaigns, req>>

\* the service on an empty identity store
InitUsers ==
    /\ users = {}
    /\ jwt_tokens = {}
    /\ now = 0
    /\ nextId = 1
    /\ issued = {}
    /\ last = [op |-> "init"]
    /\ todos = {}
    /\ campaigns = {}
    /\ req = [op |-> "none"]
    /\ calls = Idle

NextUsers ==
    \/ \E w \in Workers, username \in Usernames, email \in Emails,
          password \in RegisterPasswords, salt \in Salts :
            create_user_check(w, username, email, password, salt)
    \/ \E w \in Workers : create_user_save(w)

SpecUsers == InitUsers /\ [][NextUsers]_vars

\* TodoRepository.toggle_completed up to the commit: the row is loaded into
\* the request's session and its completed attribute is negated there
toggle_completed_find(w, id) ==
    /\ calls[w].pc \in {"idle", "done"}
    /\ calls' = [calls EXCEPT ![w] =
                   IF \E t \in todos : t.id = id
                   THEN [pc |-> "commit", op |-> "toggle_completed", id |-> id,
                         completed |-> ~(CHOOSE t \in todos : t.id = id).completed]
                   ELSE [pc |-> "done", op |-> "toggle_completed", id |-> id,
                         status |-> 404]]
    /\ UNCHANGED <<users, jwt_tokens, now, nextId, issued, last, todos, campaigns, req>>

\* the commit: the session flushes the attribute it changed
toggle_completed_commit(w) ==
    LET c == calls[w]
    IN  /\ c.pc = "commit"
        /\ c.op = "toggle_completed"
        /\ todos' = {IF t.id = c.id THEN [t EXCEPT !.completed = c.completed]
                     ELSE t : t \in todos}
        /\ calls' = [calls EXCEPT ![w] =
                       [pc |-> "done", op |-> "toggle_completed", id |-> c.id,
                        status |-> 200]]
        /\ UNCHANGED <<users, jwt_tokens, now, nextId, issued, last, campaigns, req>>

NextToggle ==
    \/ \E title \in Titles, completed \in BOOLEAN : create_todo(NULL, title, completed)
    \/ \E w \in Workers, id \in TodoIds : toggle_completed_find(w, id)
    \/ \E w \in Workers : toggle_completed_commit(w)

SpecToggle == InitRes /\ [][NextToggle]_vars

\* ================================================================ claims

\* C1: a login by an identity created through registration, with the password
\* matching its stored hash, answers 200 with a non-empty access_token,
\* token_type "bearer" and expires_in 1800.
C1_RegisteredLoginSucceeds ==
    ( /\ last.op = "login"
      /\ \E x \in users :
            /\ x.username = last.username
            /\ x.id # SeedUser.id
            /\ x.hashed_password.digest = <<x.hashed_password.salt, last.password>> )
    => ( /\ last.status = 200
         /\ last.access_token # NULL
         /\ last.token_type = "bearer"
         /\ last.expires_in = 1800 )

\* C2: authenticate_user(username, password) is the stored identity with that
\* username exactly when one exists and the password matches its hash, and is
\* nothing for every other pair; /users/token answers 200 exactly then.
C2_AuthenticateReturnsMatchingIdentity ==
    \A username \in Usernames, password \in Passwords :
        LET matching ==
                {x \in users :
                    /\ x.username = username
                    /\ x.hashed_password.digest = <<x.hashed_password.salt, password>>}
        IN  /\ authenticate_user(username, password) = matching
            /\ Cardinality(matching) <= 1
            /\ ( /\ last.op = "token"
                 /\ last.username = username
                 /\ last.password = password )
               => /\ last.user = matching
                  /\ (last.status = 200) <=> (matching # {})

C2_Witness ==
    /\ last.op = "token"
    /\ last.status = 200
    /\ \E password \in Passwords : authenticate_user(last.username, password) = {}
    /\ \E username \in Usernames : get_user_by_username(username) = {}

\* C3: a login whose username is unknown or whose password does not match the
\* stored hash returns no token and leaves the ledger, the identity store and
\* the set of handed-out tokens unchanged.
C3_FailedLoginChangesNothing ==
    [][ ( /\ last'.op = "login"
          /\ ~ \E x \in users :
                  /\ x.username = last'.username
                  /\ x.hashed_password.digest = <<x.hashed_password.salt, last'.password>> )
        => ( /\ last'.access_token = NULL
             /\ users' = users
             /\ jwt_tokens' = jwt_tokens
             /\ issued' = issued ) ]_vars

C3_Witness ==
    /\ last.op = "login"
    /\ last.status = 401
    /\ jwt_tokens # {}
    /\ \E x \in users :
          /\ x.username = last.username
          /\ x.hashed_password.digest # <<x.hashed_password.salt, last.password>>

\* C4: whenever a login returns a token, that very step wrote exactly one
\* ledger record for it, holding the SHA-256 of the returned token, the id of
\* the authenticated identity, the granted scopes and is_revoked = false; a
\* login whose ledger write did not happen returns no token.
C4_TokenReturnedOnlyAfterLedgerWrite ==
    [][ ( /\ last'.op = "login"
          /\ last'.access_token # NULL )
        => LET t == last'.access_token[1]
               rows == {r \in jwt_tokens' : r.token_hash = <<"sha256", t>>}
           IN  /\ Cardinality(rows) = 1
               /\ rows \cap jwt_tokens = {}
               /\ jwt_tokens' = jwt_tokens \cup rows
               /\ \A r \in rows :
                     /\ \E x \in users :
                           x.username = last'.username /\ r.user_id = x.id
                     /\ r.scopes = <<"json", last'.scopes>>
                     /\ r.is_revoked = FALSE ]_vars

C4_Witness ==
    /\ last.op = "login"
    /\ last.access_token # NULL
    /\ \E r \in jwt_tokens : r.token_hash = Sha256(last.access_token[1])

\* C5: the expires_at of the ledger record a login creates equals the
\* expiration of the token that login issued, the time of issuance plus the
\* 30-minute TTL.
C5_LedgerExpiryMatchesToken ==
    ( /\ last.op = "login"
      /\ last.access_token # NULL )
    => \A r \in get_by_hash(Sha256(last.access_token[1])) :
          /\ r.expires_at = last.access_token[1].payload["exp"]
          /\ r.expires_at = now + 1800

\* C6: revoke_token returns true only if a record with the hash existed, was
\* unrevoked and is now revoked; for an already-revoked record and for an
\* absent hash it returns false and changes nothing.
C6_RevokeResult ==
    last.op = "revoke"
    => /\ last.result = TRUE
          => /\ last.found # {}
             /\ \A r \in last.found : ~r.is_revoked
             /\ \A r \in get_by_hash(last.token_hash) : r.is_revoked
       /\ (last.found = {} \/ \E r \in last.found : r.is_revoked)
          => /\ last.result = FALSE
             /\ last.raised = ""
             /\ last.found \subseteq jwt_tokens

\* C7: after a login has recorded token t, revoke_token(SHA-256(t)) returns
\* true and validate_token(t) then reports "Token revoked".
C7_RevokeRecordedToken ==
    ( /\ last.op = "revoke"
      /\ \E r \in last.found : r.id # 0 /\ ~r.is_revoked )
    => /\ last.result = TRUE
       /\ last.raised = ""
       /\ \A t \in issued :
             Sha256(t) = last.token_hash
             => /\ validate_token(t).valid = FALSE
                /\ validate_token(t).error = "Token revoked"

\* C8: a token whose ledger record is revoked is honored neither by
\* validate_token nor by the gate get_current_user, even while its signature
\* and expiry are still valid.
C8_RevokedTokenNotHonored ==
    ( /\ last.op = "gate"
      /\ \E r \in get_by_hash(Sha256(last.token)) : r.is_revoked )
    => /\ last.resp.status # 200
       /\ validate_token(last.token).valid = FALSE

\* C9: validate_token reports the first failing check in the order decode,
\* subject, revocation, identity: "Invalid token", else "Missing user
\* information", else "Token revoked", else "User not found", else valid.
C9_ValidateCheckOrder ==
    \A t \in Presentable :
        LET p == t.payload
            decodes == t.sig = <<ALGORITHM, SECRET_KEY, p>> /\ p["exp"] >= now
            hasSub == "sub" \in DOMAIN p
            revoked == \E r \in jwt_tokens :
                          r.token_hash = <<"sha256", t>> /\ r.is_revoked
            known == hasSub /\ \E x \in users : x.username = p["sub"]
            expected == IF ~decodes THEN "Invalid token"
                        ELSE IF ~hasSub THEN "Missing user information"
                        ELSE IF revoked THEN "Token revoked"
                        ELSE IF ~known THEN "User not found"
                        ELSE ""
        IN  /\ validate_token(t).error = expected
            /\ validate_token(t).valid = (expected = "")

C9_Witness ==
    /\ last.op = "validate"
    /\ last.resp.error = "Token revoked"
    /\ "sub" \in DOMAIN last.token.payload
    /\ get_user_by_username(last.token.payload["sub"]) = {}

\* C10: a token that decodes, whose subject resolves to a stored identity and
\* whose hash has no ledger record is reported valid whenever the store
\* answers the lookups.
C10_UnrecordedTokenValid ==
    \A t \in Presentable :
        ( /\ t.sig = <<ALGORITHM, SECRET_KEY, t.payload>>
          /\ t.payload["exp"] >= now
          /\ "sub" \in DOMAIN t.payload
          /\ \E x \in users : x.username = t.payload["sub"]
          /\ ~ \E r \in jwt_tokens : r.token_hash = <<"sha256", t>> )
        => /\ validate_token(t).valid = TRUE
           /\ validate_token(t).user # NULL
           /\ (last.op = "validate" /\ last.token = t /\ last.caught = "")
              => last.resp.valid = TRUE

C10_Witness ==
    /\ last.op = "validate"
    /\ last.resp.valid = TRUE
    /\ get_by_hash(Sha256(last.token)) = {}

\* C11: decode_token yields the claims exactly when the signature verifies
\* under the shared secret and algorithm and the expiration has not passed;
\* for a malformed, badly signed or expired token it yields null.
C11_DecodeExactlyWhenSignedAndFresh ==
    \A t \in Presentable :
        LET verifies == t.sig = <<ALGORITHM, SECRET_KEY, t.payload>>
            fresh == verifies /\ t.payload["exp"] >= now
        IN  /\ fresh => decode_token(t, now) = <<t.payload>>
            /\ ~fresh => decode_token(t, now) = NULL

C11_Witness ==
    /\ last.op = "validate"
    /\ last.token \in issued
    /\ last.token.payload["exp"] < now
    /\ last.resp.error = "Invalid token"
    /\ decode_token(Malformed, now) = NULL

C15_NoUnknownOperation ==
    /\ last.op = "revoke" => last.raised # "unknown operation"
    /\ last.op = "login" => last.detail # "ValueError"

\* C17: across login, validation and revocation every ledger record stays in
\* the ledger with its id, hash, owner, expiry and scopes; a revoked record
\* stays revoked; and a record differs afterwards only through a revocation.
C17_LedgerFrame ==
    [][\A r \in jwt_tokens :
          \E r2 \in jwt_tokens' :
             /\ r2.id = r.id
             /\ r2.token_hash = r.token_hash
             /\ r2.user_id = r.user_id
             /\ r2.expires_at = r.expires_at
             /\ r2.scopes = r.scopes
             /\ r.is_revoked => r2.is_revoked
             /\ r2 # r => last'.op = "revoke"]_vars

C17_Witness ==
    /\ last.op = "login"
    /\ last.access_token # NULL
    /\ \E r \in jwt_tokens : r.id = 0
    /\ Cardinality(jwt_tokens) = 2

\* C18: a ledger record has only the fields id, token_hash, user_id,
\* expires_at, scopes and is_revoked; token_hash is the SHA-256 digest of an
\* issued token, never the token; and looking up the digest of a token a login
\* just issued finds exactly the record that login created.
C18_LedgerHoldsOnlyDigests ==
    /\ \A r \in jwt_tokens :
          /\ DOMAIN r = {"id", "token_hash", "user_id", "expires_at", "scopes",
                         "is_revoked"}
          /\ r.token_hash[1] = "sha256"
          /\ \E t \in issued : r.token_hash = <<"sha256", t>>
    /\ \A t \in issued : Cardinality(get_by_hash(<<"sha256", t>>)) <= 1
    /\ (last.op = "login" /\ last.access_token # NULL)
       => LET t == last.access_token[1]
          IN  \E r \in jwt_tokens :
                 /\ get_by_hash(<<"sha256", t>>) = {r}
                 /\ r.user_id = t.payload["user_id"]
                 /\ r.scopes = JsonDumps(t.payload["scopes"])
                 /\ ~r.is_revoked

C18_Witness ==
    /\ last.op = "login"
    /\ last.access_token # NULL
    /\ get_by_hash(Sha256(last.access_token[1])) # {}
    /\ last.req_scopes = <<>>

C20_FailedLoginsAlike ==
    ( /\ last.op \in {"login", "token"}
      /\ \/ get_user_by_username(last.username) = {}
         \/ \E x \in get_user_by_username(last.username) :
               x.hashed_password
                 # get_password_hash(last.password, x.hashed_password.salt) )
    => /\ last.status = 401
       /\ last.detail = "Incorrect username or password"
       /\ last.headers = <<"WWW-Authenticate", "Bearer">>
       /\ last.access_token = NULL

C20_Witness ==
    /\ last.op = "login"
    /\ last.status = 401
    /\ users # {}
    /\ get_user_by_username(last.username) = {}

\* C14: a resource request is answered with success only if it carried a
\* bearer token that decodes; a request without one changes no resource.
C14_ResourceRequestsAuthenticated ==
    (req.op # "none" /\ req.status = 200)
    => /\ req.authorization # NULL
       /\ decode_token(req.authorization[1], now) # NULL

\* C16: every step that creates or modifies a todo or a campaign passed the
\* entity's (type, operation) pair to the validator registry first.
C16_WritesAreValidated ==
    [][( /\ \/ todos' # todos
            \/ campaigns' # campaigns
         /\ req'.op \notin {"delete_todo", "delete_campaign"} )
       => req'.validated # {}]_vars

\* C22: a token validation during which the store cannot be reached ends in a
\* 500 that carries no detail, not in an ordinary validation response.
C22_StoreFailureIs500 ==
    (last.op = "validate" /\ last.caught # "")
    => /\ last.status = 500
       /\ last.resp.error = ""

\* C24: every stored campaign with both dates set has end_date > start_date.
C24_EndAfterStart ==
    \A c \in campaigns :
        (c.start_date # NULL /\ c.end_date # NULL)
        => c.end_date[1] > c.start_date[1]

\* C25: a date-range query with start < end returns, of the campaigns with
\* both dates set, exactly those with start_date <= end and end_date >= start.
C25_DateRangeIsOverlap ==
    (req.op = "get_campaigns_by_date_range" /\ req.status = 200)
    => \A c \in campaigns :
          (c.start_date # NULL /\ c.end_date # NULL)
          => ( c \in req.result
               <=> /\ c.start_date[1] <= req.end_date
                   /\ c.end_date[1] >= req.start_date )

\* C26: for every registered (entity type, operation) pair that a request
\* looked up in the registry, the entity class's get_validator returns the
\* schema the registry holds for the pair.
C26_GetValidatorMatchesRegistry ==
    "validated" \in DOMAIN req
    => \A pair \in req.validated \cap Registered :
          get_validator(pair[1], pair[2]) = RegisteredSchema(pair[1], pair[2])

\* C27: a token that validates reports, as the id of its user, the user_id
\* claim it was issued with.
C27_ValidatesAsIssuedIdentity ==
    \A t \in issued :
        ("user_id" \in DOMAIN t.payload /\ validate_token(t).valid)
        => validate_token(t).user[1].id = t.payload["user_id"]

\* C28: no two ledger records share a token_hash, and a login with valid
\* credentials, for an identity whose last_login is set and with the store
\* accepting the commit, returns a token even when an equal login was served
\* within the same second.
C28_SameSecondLoginsBothSucceed ==
    /\ \A r1 \in jwt_tokens, r2 \in jwt_tokens :
          r1.token_hash = r2.token_hash => r1 = r2
    /\ ( /\ last.op = "login"
         /\ last.user # {}
         /\ last.detail \notin {"TypeError", "OperationalError"} )
       => /\ last.status = 200
          /\ last.access_token # NULL

\* C23: a request to a gated campaign endpoint is answered 401 when its token
\* does not decode or names no subject, whatever its scopes; 403 when the
\* token names a subject but lacks the endpoint's scope, whether or not that
\* subject is a stored identity; 401 when the scope is present and the subject
\* is not stored; and the handler's own answer only when all three pass.
C23_GateOrder ==
    LET a == req.authorization
        p == a[1].payload
        required ==
            CASE req.op \in {"create_campaign", "update_campaign"} -> "campaigns:write"
              [] req.op = "get_campaign" -> "campaigns:read"
              [] OTHER -> "campaigns:manage"
        has_sub == /\ a # NULL
                   /\ a[1].sig = <<ALGORITHM, SECRET_KEY, p>>
                   /\ p["exp"] >= now
                   /\ "sub" \in DOMAIN p
        scoped == has_sub /\ \E j \in 1..Len(p["scopes"]) : p["scopes"][j] = required
        known == scoped /\ \E x \in users : x.username = p["sub"]
    IN  req.op \in {"create_campaign", "get_campaign", "update_campaign",
                    "update_campaign_status", "toggle_campaign_active",
                    "delete_campaign"}
        => /\ ~has_sub => req.status = 401
           /\ (has_sub /\ ~scoped) => req.status = 403
           /\ (scoped /\ ~known) => req.status = 401
           /\ known => req.status \notin {401, 403}

C23_Witness ==
    /\ req.op = "get_campaign"
    /\ req.status = 403
    /\ req.authorization = <<GoneToken>>
    /\ get_user_by_username("alice") = {}

\* C29: on stores that differ only in an identity's is_active flag the
\* outcomes are the same: whatever the flag, the matching password
\* authenticates the identity and no other password does, an unexpired,
\* unrevoked token of the identity validates with the same user summary, and
\* the gate admits the token for a scope it carries.
C29_OutcomesIgnoreIsActive ==
    /\ \A x \in users, password \in Passwords :
          authenticate_user(x.username, password)
            = IF x.hashed_password
                   = get_password_hash(password, x.hashed_password.salt)
              THEN {x} ELSE {}
    /\ \A x \in users, t \in issued :
          ( /\ t.payload["sub"] = x.username
            /\ t.payload["exp"] >= now
            /\ \A r \in jwt_tokens : r.token_hash = <<"sha256", t>> => ~r.is_revoked )
          => /\ validate_token(t)
                  = [valid |-> TRUE, error |-> "",
                     user |-> <<[id |-> x.id, username |-> x.username,
                                 email |-> x.email,
                                 roles |-> IF x.is_admin THEN <<"user", "admin">>
                                           ELSE <<"user">>,
                                 scopes |-> t.payload["scopes"]]>>]
             /\ get_current_user(t, <<t.payload["scopes"][1]>>).status = 200
    /\ (last.op \in {"login", "token"} /\ last.status = 200)
       => \E x \in users : /\ x.username = last.username
                           /\ x.hashed_password
                                = get_password_hash(last.password, x.hashed_password.salt)

C29_Witness ==
    /\ last.op = "login"
    /\ last.status = 200
    /\ \E x \in users : x.username = last.username /\ ~x.is_active
    /\ validate_token(last.access_token[1]).valid

\* C21: under any interleaving of create_user requests the stored identities
\* keep distinct usernames and distinct emails, and a request that reaches its
\* save when its username or email is taken is answered 400 and stores nothing.
C21_DuplicateRejectedWith400 ==
    [][/\ \A u1 \in users', u2 \in users' :
             (u1.username = u2.username \/ u1.email = u2.email) => u1 = u2
       /\ \A w \in Workers :
             ( /\ calls[w].pc = "save"
               /\ calls'[w].pc = "done"
               /\ \E u \in users : \/ u.username = calls[w].username
                                   \/ u.email = calls[w].email )
             => /\ calls'[w].status = 400
                /\ users' = users]_vars

\* C30: a toggle's commit changes nothing but the completed field of its todo,
\* and it inverts the value stored at that moment, so that two toggles of one
\* todo restore the value it had before them.
C30_NoToggleLost ==
    [][\A w \in Workers :
          (calls[w].pc = "commit" /\ calls'[w].pc = "done")
          => /\ \A t \in todos :
                   \E t2 \in todos' :
                      /\ t2.id = t.id
                      /\ t2.title = t.title
                      /\ t2.completed
                           = IF t.id = calls[w].id THEN ~t.completed ELSE t.completed
             /\ Cardinality(todos') = Cardinality(todos)]_vars
====
